---- MODULE Spec2Model ----
(***************************************************************************)
(* The pi-peline execution engine (src/execution/engine.rs), its scheduler *)
(* (src/execution/scheduler.rs), the step executor's verdict               *)
(* (src/execution/executor.rs) and the pipeline/step state they work on    *)
(* (src/core/pipeline.rs, src/core/step.rs, src/core/state.rs).            *)
(*                                                                         *)
(* One behaviour is one call of ExecutionEngine::execute on one pipeline.  *)
(* The agent is the environment: every reply it can give is drawn from     *)
(* Replies at the moment the executor is awaited.                          *)
(***************************************************************************)
EXTENDS Integers, Sequences, FiniteSets, TLC

\* ------------------------------------------------------------------------
\* Bounds of the model
\* ------------------------------------------------------------------------

\* largest max_retries given to the steps of a pipeline
MaxRetries == 2

\* largest n of LimitedParallel(n)
MaxParallel == 2

\* most lines the agent subprocess writes to its standard output in one call
MaxLines == 3

\* ------------------------------------------------------------------------
\* Pipeline definitions (core/config.rs -> core/step.rs Step::from_config)
\* ------------------------------------------------------------------------

None == "none"

\* Step: the immutable part of core::step::Step.  dependencies is a Vec,
\* termination.on_success / on_failure and continuation are Options.
StepDef(deps, on_s, on_f, c_action, c_target) ==
    [dependencies |-> deps,
     on_success   |-> on_s,
     on_failure   |-> on_f,
     cont_action  |-> c_action,
     cont_target  |-> c_target]

Plain(deps) == StepDef(deps, None, None, None, None)

\* Each pipeline lists its step ids in sorted order (topological_sort sorts
\* the keys of the step map before visiting them).
RetryTask ==
    [ids   |-> <<"task">>,
     steps |-> "task" :> StepDef(<<>>, None, None, "retry", None)]

NoHandlerTask ==
    [ids   |-> <<"task">>,
     steps |-> "task" :> Plain(<<>>)]

SuccessChain ==
    [ids   |-> <<"implement", "plan", "review">>,
     steps |-> "plan"      :> StepDef(<<>>, "implement", None, None, None)
            @@ "implement" :> StepDef(<<"plan">>, "review", None, None, None)
            @@ "review"    :> Plain(<<"implement">>)]

ReviewLoop ==
    [ids   |-> <<"deploy", "implement", "review">>,
     steps |-> "implement" :> StepDef(<<>>, "review", None, None, None)
            @@ "review"    :> StepDef(<<"implement">>, "deploy", "implement", None, None)
            @@ "deploy"    :> Plain(<<"review">>)]

FailureRouting ==
    [ids   |-> <<"fallback", "risky_task">>,
     steps |-> "risky_task" :> StepDef(<<>>, None, "fallback", None, None)
            @@ "fallback"   :> Plain(<<"risky_task">>)]

\* the same handler without a dependency on the step it handles
FreeFallback ==
    [ids   |-> <<"fallback", "risky_task">>,
     steps |-> "risky_task" :> StepDef(<<>>, None, "fallback", None, None)
            @@ "fallback"   :> Plain(<<>>)]

FailureToTerminator ==
    [ids   |-> <<"cleanup", "task">>,
     steps |-> "task"    :> StepDef(<<>>, "cleanup", "cleanup", None, None)
            @@ "cleanup" :> Plain(<<"task">>)]

\* two independent producers routing to one consumer that may ask for a retry
FanIn ==
    [ids   |-> <<"left", "merge", "right">>,
     steps |-> "left"  :> StepDef(<<>>, "merge", None, None, None)
            @@ "right" :> StepDef(<<>>, "merge", None, None, None)
            @@ "merge" :> StepDef(<<"left", "right">>, None, None, "retry", None)]

\* two steps that depend on setup; one of them routes back to setup
RouteBack ==
    [ids   |-> <<"setup", "task_a", "task_b">>,
     steps |-> "setup"  :> Plain(<<>>)
            @@ "task_a" :> StepDef(<<"setup">>, "setup", None, None, None)
            @@ "task_b" :> Plain(<<"setup">>)]

\* an unhandled failure next to a handled one
MixedFailures ==
    [ids   |-> <<"fallback", "risky_task", "task">>,
     steps |-> "task"       :> Plain(<<>>)
            @@ "risky_task" :> StepDef(<<>>, None, "fallback", None, None)
            @@ "fallback"   :> Plain(<<>>)]

\* continuation routing between two steps that both can ask for it
ContinuationRoute ==
    [ids   |-> <<"check", "fix">>,
     steps |-> "check" :> StepDef(<<>>, None, None, "route", "fix")
            @@ "fix"   :> StepDef(<<>>, "check", None, "retry", None)]

\* three producers; the reviewer may send the merge back by a continuation route
Rework ==
    [ids   |-> <<"left", "merge", "middle", "review", "right">>,
     steps |-> "left"   :> StepDef(<<>>, "merge", None, None, None)
            @@ "middle" :> StepDef(<<>>, "review", None, None, None)
            @@ "right"  :> StepDef(<<>>, "merge", None, None, None)
            @@ "merge"  :> Plain(<<"left", "right">>)
            @@ "review" :> StepDef(<<"middle">>, None, None, "route", "merge")]

\* two tasks in a chain, each with a failure handler that depends on it
MultipleFailureHandlers ==
    [ids   |-> <<"fallback1", "fallback2", "task1", "task2", "task3">>,
     steps |-> "task1"     :> StepDef(<<>>, "task2", "fallback1", None, None)
            @@ "task2"     :> StepDef(<<"task1">>, "task3", "fallback2", None, None)
            @@ "task3"     :> Plain(<<"task2">>)
            @@ "fallback1" :> Plain(<<"task1">>)
            @@ "fallback2" :> Plain(<<"task2">>)]

\* a step whose continuation routes to the step itself
SelfRoute ==
    [ids   |-> <<"task">>,
     steps |-> "task" :> StepDef(<<>>, None, None, "route", "task")]

Pipelines ==
    {SelfRoute, RetryTask, NoHandlerTask, SuccessChain, ReviewLoop, FailureRouting,
     FreeFallback, FailureToTerminator, FanIn, RouteBack, MixedFailures,
     ContinuationRoute, Rework, MultipleFailureHandlers}

\* SchedulingStrategy (scheduler.rs:8-17)
Sequential == [kind |-> "Sequential", max |-> 0]
Parallel == [kind |-> "Parallel", max |-> 0]
LimitedParallel(n) == [kind |-> "LimitedParallel", max |-> n]

Strategies == {Sequential, Parallel} \cup {LimitedParallel(n) : n \in 1..MaxParallel}

\* ------------------------------------------------------------------------
\* StepState (core/state.rs:26-61) and ExecutionStatus (core/state.rs:9-22)
\* ------------------------------------------------------------------------

Pending == [tag |-> "Pending", attempt |-> 0, output |-> None, error |-> None]
Retrying(n) == [tag |-> "Retrying", attempt |-> n, output |-> None, error |-> None]
Running(n) == [tag |-> "Running", attempt |-> n, output |-> None, error |-> None]
Completed(out, n) == [tag |-> "Completed", attempt |-> n, output |-> out, error |-> None]
Failed(err, n) == [tag |-> "Failed", attempt |-> n, output |-> None, error |-> err]

is_terminal(st) == st.tag \in {"Completed", "Failed", "Skipped"}

\* no routed transition
NoRoute == [from |-> None, to |-> None, prior |-> Pending]

\* ExecutionEvent (engine.rs:13-53); info is the variant's remaining field
\* (next_step, to_step, error, action or status)
Event(type, step_id, attempt, info) ==
    [type |-> type, step |-> step_id, attempt |-> attempt, info |-> info]

\* no reply interpreted
NoAnswer ==
    [step |-> None, attempt |-> 0,
     reply |-> [kind |-> None, succ |-> FALSE, cont |-> FALSE]]

VARIABLES
    pipeline,        \* the loaded pipeline definition (immutable after load)
    max_retries,     \* Step.max_retries of every step
    strategy,        \* ExecutionScheduler.strategy
    state,           \* Step.state of every step
    status,          \* pipeline.state.status
    explicit_queue,  \* ExecutionScheduler.explicit_queue
    pc,              \* where execute() stands
    step_ids,        \* the part of the selected batch not yet executed
    current,         \* the step whose executor call is awaited
    outcome,         \* what execute() returned
    executions,      \* per step: how often the executor was invoked
    chain_runs,      \* per step: Running entries since routing last landed on it
    verdicts,        \* per step: the executor's results, oldest first
    routed,          \* the routed transition made by the last step, if any
    answered,        \* the reply the last step of the engine interpreted, if any
    events,          \* the ExecutionEvents handed to emit_event, oldest first
    event_handlers,  \* ExecutionEngine.event_handlers
    received         \* the events the registered handler was called with

\* one call of PiSubprocessClient::execute_streaming (agent/subprocess_client.rs)
VARIABLES
    driver_pc,         \* where execute_streaming stands
    callback,          \* whether a ProgressCallback was supplied
    child,             \* the child process
    stdout_open,       \* whether the write end of the child's stdout is open
    line,              \* the line next_line returned, while it is handled
    arrived,           \* the lines next_line returned, oldest first
    accumulated_text,  \* the accumulator buffer
    delivered,         \* the events handed to on_event, oldest first
    response,          \* what execute_streaming returned
    interrupted,       \* the executor's interrupted flag (an AtomicBool)
    execution_result   \* what StepExecutor::execute_interruptible returned

engine_vars ==
    <<pipeline, max_retries, strategy, state, status, explicit_queue, pc,
      step_ids, current, outcome, executions, chain_runs, verdicts, routed,
      answered, events, event_handlers, received>>

driver_vars ==
    <<driver_pc, callback, child, stdout_open, line, arrived, accumulated_text,
      delivered, response, interrupted, execution_result>>

vars == <<pipeline, max_retries, strategy, state, status, explicit_queue, pc,
          step_ids, current, outcome, executions, chain_runs, verdicts, routed,
          answered, events, driver_pc, callback, child, stdout_open, line,
          arrived, accumulated_text, delivered, response, interrupted,
          execution_result,
          event_handlers, received>>

Steps == DOMAIN pipeline.steps

\* what execute_streaming returns: Ok(AgentResponse) or Err(AgentError)
NoResponse == [kind |-> None, content |-> <<>>, error |-> None]

\* a line of the child's standard output: raw is "empty", "text" (no JSON
\* object) or "object"; type is the object's "type"; nested is the "type" of
\* its assistantMessageEvent; index tells whether contentIndex is present;
\* delta and content are strings, written as sequences of characters
WireLine(raw, type, nested, index, delta, has_content, content) ==
    [raw |-> raw, type |-> type, nested |-> nested, index |-> index,
     delta |-> delta, has_content |-> has_content, content |-> content]

NoLine == WireLine(None, None, None, FALSE, <<>>, FALSE, <<>>)

\* ExecutionResult (executor.rs:12-41) with the accumulated_output of its
\* Interrupted variant
NoResult ==
    [kind |-> None, action |-> None, target |-> None, error |-> None,
     accumulated_output |-> <<>>]

\* no agent call in progress
NoAgentCall ==
    /\ driver_pc = "idle"
    /\ callback = FALSE
    /\ child = None
    /\ stdout_open = FALSE
    /\ line = NoLine
    /\ arrived = <<>>
    /\ accumulated_text = <<>>
    /\ delivered = <<>>
    /\ response = NoResponse
    /\ interrupted = FALSE
    /\ execution_result = NoResult

Init ==
    /\ pipeline \in Pipelines
    /\ \E n \in 0..MaxRetries : max_retries = [s \in DOMAIN pipeline.steps |-> n]
    /\ strategy \in Strategies
    /\ state = [s \in DOMAIN pipeline.steps |-> Pending]
    /\ status = "Pending"
    /\ explicit_queue = <<>>
    /\ pc = "start"
    /\ step_ids = <<>>
    /\ current = None
    /\ outcome = None
    /\ executions = [s \in DOMAIN pipeline.steps |-> 0]
    /\ chain_runs = [s \in DOMAIN pipeline.steps |-> 0]
    /\ verdicts = [s \in DOMAIN pipeline.steps |-> <<>>]
    /\ routed = NoRoute
    /\ answered = NoAnswer
    /\ events = <<>>
    /\ event_handlers = <<>>
    /\ received = <<>>
    /\ NoAgentCall

\* ------------------------------------------------------------------------
\* Pipeline queries (core/pipeline.rs, core/step.rs)
\* ------------------------------------------------------------------------

Range(seq) == {seq[i] : i \in DOMAIN seq}

with_state(tags) == {s \in Steps : state[s].tag \in tags}

\* a dependency test that lets every step through
dependencies_met_ignored(s, completed_or_failed_steps) == TRUE

\* Step::dependencies_met
dependencies_met(s, completed_or_failed_steps) ==
    \A dep \in Range(pipeline.steps[s].dependencies) : dep \in completed_or_failed_steps

\* Step::dependencies_satisfied, as the scheduler calls it with the set of
\* Completed step ids: the step itself only knows its dependency ids.
dependencies_satisfied(s, completed) ==
    \A dep \in Range(pipeline.steps[s].dependencies) : dep \in completed

\* Pipeline::ready_steps
ready_steps ==
    {s \in with_state({"Pending", "Retrying"}) :
        dependencies_met(s, with_state({"Completed", "Failed"}))}

\* Pipeline::running_steps
running_steps == with_state({"Running"})

\* Pipeline::is_complete
is_complete == \A s \in Steps : state[s].tag \in {"Completed", "Skipped", "Failed"}

\* Pipeline::has_failed
has_failed == status = "Failed"

\* Pipeline::topological_sort / Pipeline::visit: depth-first over depends_on
\* only, the step ids taken in sorted order.  acc = [visited, result].
RECURSIVE visit(_, _, _)
RECURSIVE visit_all(_, _, _)

\* a variant that appends the step without visiting its dependencies first
visit_without_dependencies(step_id, p, acc) ==
    IF step_id \in acc.visited THEN acc
    ELSE [visited |-> acc.visited \cup {step_id},
          result  |-> Append(acc.result, step_id)]

visit_all(ids, p, acc) ==
    IF ids = <<>> THEN acc
    ELSE visit_all(Tail(ids), p, visit(Head(ids), p, acc))

visit(step_id, p, acc) ==
    IF step_id \in acc.visited THEN acc
    ELSE LET deps == IF step_id \in DOMAIN p.steps
                     THEN p.steps[step_id].dependencies ELSE <<>>
             sub == visit_all(deps, p, acc)
         IN [visited |-> sub.visited \cup {step_id},
             result  |-> Append(sub.result, step_id)]

topological_sort(p) == visit_all(p.ids, p, [visited |-> {}, result |-> <<>>]).result

\* Pipeline::execution_order
execution_order == topological_sort(pipeline)

\* ------------------------------------------------------------------------
\* Scheduler (execution/scheduler.rs)
\* ------------------------------------------------------------------------

\* the state test of collect_ready_from_queue and next_sequential
selectable_state(st) == st.tag = "Pending"

\* all orders in which a HashMap may hand out the first k members of S
Orderings(S, k) ==
    {q \in [1..k -> S] : \A i, j \in 1..k : q[i] = q[j] => i = j}

Min(a, b) == IF a < b THEN a ELSE b

collect_ready_from_queue ==
    LET completed == with_state({"Completed"})
        ready == SelectSeq(explicit_queue,
                     LAMBDA id : /\ id \in Steps
                                 /\ selectable_state(state[id])
                                 /\ dependencies_satisfied(id, completed))
    IN IF strategy.kind = "Sequential" /\ ready # <<>>
       THEN <<Head(ready)>>
       ELSE ready

next_sequential ==
    LET completed == with_state({"Completed"})
        ready == SelectSeq(execution_order,
                     LAMBDA id : /\ id \in Steps
                                 /\ selectable_state(state[id])
                                 /\ dependencies_satisfied(id, completed))
    IN IF ready # <<>> THEN <<Head(ready)>> ELSE <<>>

next_parallel == Orderings(ready_steps, Cardinality(ready_steps))

\* LimitedParallel without its cap
next_limited_parallel_uncapped(max) ==
    Orderings(ready_steps, Cardinality(ready_steps))

next_limited_parallel(max) ==
    LET running_count == Cardinality(running_steps)
        remaining == IF max > running_count THEN max - running_count ELSE 0
    IN Orderings(ready_steps, Min(remaining, Cardinality(ready_steps)))

\* ExecutionScheduler::next_steps: the vectors it may return
next_steps ==
    IF explicit_queue # <<>> THEN {collect_ready_from_queue}
    ELSE CASE strategy.kind = "Sequential" -> {next_sequential}
           [] strategy.kind = "Parallel" -> next_parallel
           [] strategy.kind = "LimitedParallel" -> next_limited_parallel(strategy.max)

\* an enqueue at the front of the queue
enqueue_front(queue, step_id) == <<step_id>> \o queue

\* ExecutionScheduler::enqueue
enqueue(queue, step_id) == Append(queue, step_id)

\* ------------------------------------------------------------------------
\* Step executor verdict (execution/executor.rs StepExecutor::execute)
\* ------------------------------------------------------------------------

\* A reply of the agent: an error, a timeout, or a text of which only the
\* sentinels it contains matter.
Replies ==
    {[kind |-> "error", succ |-> FALSE, cont |-> FALSE],
     [kind |-> "timeout", succ |-> FALSE, cont |-> FALSE]}
    \cup {[kind |-> "text", succ |-> a, cont |-> b] : a, b \in BOOLEAN}

\* Step::needs_continuation
needs_continuation(def, reply) == def.cont_action # None /\ reply.cont

\* Step::is_success
is_success(def, reply) == reply.succ

Result(k, a, t, e) == [kind |-> k, action |-> a, target |-> t, error |-> e]

\* the verdict with the success check ahead of the continuation check
executor_execute_success_first(def, reply) ==
    IF reply.kind = "error" THEN Result("Failed", None, None, "agent error")
    ELSE IF reply.kind = "timeout" THEN Result("Failed", None, None, "Timeout")
    ELSE IF is_success(def, reply)
         THEN Result("Success", None, def.on_success, None)
    ELSE IF needs_continuation(def, reply)
         THEN IF def.cont_action = "retry"
              THEN Result("Continue", "Retry", None, None)
              ELSE Result("Continue", "Route", def.cont_target, None)
    ELSE IF def.on_failure # None
         THEN Result("FailedWithRoute", None, def.on_failure,
                     "No termination pattern found")
    ELSE Result("Continue", "Retry", None, None)

\* the verdict that fails a step without handler on an unmatched reply
executor_execute_unmatched_fails(def, reply) ==
    IF reply.kind = "error" THEN Result("Failed", None, None, "agent error")
    ELSE IF reply.kind = "timeout" THEN Result("Failed", None, None, "Timeout")
    ELSE IF needs_continuation(def, reply)
         THEN IF def.cont_action = "retry"
              THEN Result("Continue", "Retry", None, None)
              ELSE Result("Continue", "Route", def.cont_target, None)
    ELSE IF is_success(def, reply)
         THEN Result("Success", None, def.on_success, None)
    ELSE IF def.on_failure # None
         THEN Result("FailedWithRoute", None, def.on_failure,
                     "No termination pattern found")
    ELSE Result("Failed", None, None, "No termination pattern found")

\* the verdict that lets a timed-out step try again
executor_execute_timeout_retries(def, reply) ==
    IF reply.kind = "error" THEN Result("Failed", None, None, "agent error")
    ELSE IF reply.kind = "timeout" THEN Result("Continue", "Retry", None, None)
    ELSE IF needs_continuation(def, reply)
         THEN IF def.cont_action = "retry"
              THEN Result("Continue", "Retry", None, None)
              ELSE Result("Continue", "Route", def.cont_target, None)
    ELSE IF is_success(def, reply)
         THEN Result("Success", None, def.on_success, None)
    ELSE IF def.on_failure # None
         THEN Result("FailedWithRoute", None, def.on_failure,
                     "No termination pattern found")
    ELSE Result("Continue", "Retry", None, None)

executor_execute(def, reply) ==
    IF reply.kind = "error" THEN Result("Failed", None, None, "agent error")
    ELSE IF reply.kind = "timeout" THEN Result("Failed", None, None, "Timeout")
    ELSE IF needs_continuation(def, reply)
         THEN IF def.cont_action = "retry"
              THEN Result("Continue", "Retry", None, None)
              ELSE Result("Continue", "Route", def.cont_target, None)
    ELSE IF is_success(def, reply)
         THEN Result("Success", None, def.on_success, None)
    ELSE IF def.on_failure # None
         THEN Result("FailedWithRoute", None, def.on_failure,
                     "No termination pattern found")
    ELSE Result("Continue", "Retry", None, None)

\* ------------------------------------------------------------------------
\* Engine (execution/engine.rs)
\* ------------------------------------------------------------------------

\* execute_step: (attempt, is_retry) derived from the step's state
attempt_of(st) ==
    CASE st.tag = "Pending" -> 1
      [] st.tag = "Retrying" -> st.attempt
      [] st.tag = "Running" -> st.attempt + 1
      [] OTHER -> 0

is_retry_of(st) == st.tag \in {"Retrying", "Running"}

\* the retry-limit check, one retry too generous
exceeds_retry_limit_late(attempt, is_retry, limit) ==
    LET retry_count == IF is_retry THEN attempt - 1 ELSE 0
    IN retry_count > limit + 1

\* execute_step: the retry-limit check
exceeds_retry_limit(attempt, is_retry, limit) ==
    LET retry_count == IF is_retry THEN attempt - 1 ELSE 0
    IN retry_count > limit

\* routing that puts a terminal target back to Pending
route_reset_to_pending(st) ==
    IF st.tag \in {"Completed", "Failed"} THEN Pending ELSE st

\* routing that leaves its target as it is
route_reset_skipped(st) == st

\* execute_step, Success and FailedWithRoute: what routing does to its target
route_reset(st) ==
    IF st.tag \in {"Completed", "Failed"} THEN Retrying(st.attempt + 1) ELSE st

\* handle_continuation, Route: what routing does to its target
continuation_reset(st) ==
    Retrying(IF st.tag \in {"Completed", "Failed"} THEN st.attempt ELSE 1)

\* handle_continuation, Retry: the state the step is put in
retry_state(st) ==
    Retrying((IF st.tag \in {"Running", "Retrying"} THEN st.attempt ELSE 0) + 1)

\* mark_step_success
mark_step_success(st, output) ==
    Completed(output, IF st.tag = "Running" THEN st.attempt ELSE 1)

\* mark_step_failed sets the step Failed and always fails the pipeline
mark_step_failed(error, attempt) == Failed(error, attempt)

\* where execute() stands after execute_step returned Ok
after_step(rest) == IF rest = <<>> THEN "loop" ELSE "batch"
\* the events appended by the step being taken
emitted == SubSeq(events', Len(events) + 1, Len(events'))

\* emit_event: every registered handler is called with the event, under the
\* lock of the handler list; lines 91-97
emit_event ==
    /\ received' = IF event_handlers # <<>> THEN received \o emitted ELSE received
    /\ UNCHANGED event_handlers

\* execute(): PipelineStarted, pipeline.state.start()
Start ==
    /\ UNCHANGED driver_vars
    /\ pc = "start"
    /\ events' = Append(events, Event("PipelineStarted", None, 0, None))
    /\ status' = "Running"
    /\ pc' = "loop"
    /\ routed' = NoRoute
    /\ answered' = NoAnswer
    /\ UNCHANGED <<pipeline, max_retries, strategy, state, explicit_queue,
                   step_ids, current, outcome, executions, chain_runs, verdicts>>
    /\ emit_event

\* execute(): the while condition fails; lines 209-228
LoopExit ==
    /\ UNCHANGED driver_vars
    /\ pc = "loop"
    /\ is_complete \/ has_failed
    /\ status' = IF has_failed THEN "Failed" ELSE "Completed"
    /\ events' = Append(events, Event("PipelineCompleted", None, 0,
                                       IF has_failed THEN "Failed" ELSE "Completed"))
    /\ pc' = "done"
    /\ outcome' = "Ok"
    /\ routed' = NoRoute
    /\ answered' = NoAnswer
    /\ UNCHANGED <<pipeline, max_retries, strategy, state, explicit_queue,
                   step_ids, current, executions, chain_runs, verdicts>>
    /\ emit_event

\* execute(): the scheduler returns a non-empty batch
SelectBatch ==
    /\ UNCHANGED driver_vars
    /\ pc = "loop"
    /\ ~(is_complete \/ has_failed)
    /\ \E ids \in next_steps :
          /\ ids # <<>>
          /\ step_ids' = ids
    /\ pc' = "batch"
    /\ routed' = NoRoute
    /\ answered' = NoAnswer
    /\ UNCHANGED <<pipeline, max_retries, strategy, state, status,
                   explicit_queue, current, outcome, executions, chain_runs,
                   verdicts, events>>
    /\ emit_event

\* execute(): lines 126-149
all_terminal == \A s \in Steps : is_terminal(state[s])

blocked_by_failed_deps ==
    \E s \in Steps :
        /\ state[s].tag = "Pending"
        /\ \E dep \in Range(pipeline.steps[s].dependencies) :
              dep \in Steps /\ state[dep].tag = "Failed"

retrying_blocked ==
    \E s \in Steps :
        /\ state[s].tag = "Retrying"
        /\ \E dep \in Range(pipeline.steps[s].dependencies) :
              dep \in Steps /\ state[dep].tag \notin {"Completed", "Failed"}

\* execute(): the scheduler returns an empty batch; lines 122-183
EmptyBatch ==
    /\ UNCHANGED driver_vars
    /\ pc = "loop"
    /\ ~(is_complete \/ has_failed)
    /\ <<>> \in next_steps
    /\ IF running_steps = {}
       THEN IF all_terminal \/ (blocked_by_failed_deps /\ ~retrying_blocked)
            THEN /\ status' = IF status = "Running"
                              THEN (IF has_failed THEN "Failed" ELSE "Completed")
                              ELSE status
                 /\ events' = Append(events, Event("PipelineCompleted", None, 0,
                                       IF has_failed THEN "Failed" ELSE "Completed"))
                 /\ outcome' = "Ok"
                 /\ pc' = "done"
            ELSE /\ status' = "Failed"
                 /\ events' = Append(events, Event("PipelineCompleted", None, 0,
                                                    "Failed"))
                 /\ outcome' = "Err"
                 /\ pc' = "done"
       ELSE \* sleep 100 ms and poll again
            UNCHANGED <<status, outcome, pc, events>>
    /\ routed' = NoRoute
    /\ answered' = NoAnswer
    /\ UNCHANGED <<pipeline, max_retries, strategy, state, explicit_queue,
                   step_ids, current, executions, chain_runs, verdicts>>
    /\ emit_event

\* a variant that announces a retry but never the start of the execution
emit_step_started_silent(step_id, attempt, is_retry) ==
    IF is_retry THEN <<Event("StepRetrying", step_id, attempt, None)>> ELSE <<>>

\* execute_step: StepStarted on entering Running, StepRetrying when is_retry;
\* lines 265-284
emit_step_started(step_id, attempt, is_retry) ==
    <<Event("StepStarted", step_id, attempt, None)>>
        \o (IF is_retry THEN <<Event("StepRetrying", step_id, attempt, None)>> ELSE <<>>)

\* a variant that reports the continuation without the reroute
emit_continuation_route_unannounced(step_id, target_id) ==
    <<Event("StepContinued", step_id, 0, "Route")>>

\* handle_continuation: StepContinued first, then StepRerouted for a route;
\* lines 386-397, 424-429
emit_continuation_route(step_id, target_id) ==
    <<Event("StepContinued", step_id, 0, "Route"),
      Event("StepRerouted", step_id, 0, target_id)>>

\* execute_step up to the executor call; lines 232-288
ExecuteStep ==
    /\ UNCHANGED driver_vars
    /\ pc = "batch"
    /\ step_ids # <<>>
    /\ LET step_id == Head(step_ids)
           st == state[step_id]
           attempt == attempt_of(st)
       IN /\ step_ids' = Tail(step_ids)
          /\ routed' = NoRoute
          /\ answered' = NoAnswer
          /\ IF st.tag \notin {"Pending", "Retrying", "Running"}
             THEN \* Err("Step .. in invalid state for execution"), propagated by ?
                  /\ outcome' = "Err"
                  /\ pc' = "done"
                  /\ UNCHANGED <<state, status, current, executions, chain_runs,
                                 events>>
             ELSE IF exceeds_retry_limit(attempt, is_retry_of(st), max_retries[step_id])
             THEN /\ state' = [state EXCEPT ![step_id] =
                          mark_step_failed("Exceeded retry limit", attempt - 1)]
                  /\ events' = Append(events, Event("StepFailed", step_id, 0,
                                                     "Exceeded retry limit"))
                  /\ status' = "Failed"
                  /\ pc' = after_step(Tail(step_ids))
                  /\ UNCHANGED <<outcome, current, executions, chain_runs>>
             ELSE /\ state' = [state EXCEPT ![step_id] = Running(attempt)]
                  /\ events' = events \o emit_step_started(step_id, attempt, is_retry_of(st))
                  /\ current' = step_id
                  /\ executions' = [executions EXCEPT ![step_id] = @ + 1]
                  /\ chain_runs' = [chain_runs EXCEPT ![step_id] = @ + 1]
                  /\ pc' = "exec"
                  /\ UNCHANGED <<status, outcome>>
    /\ UNCHANGED <<pipeline, max_retries, strategy, explicit_queue, verdicts>>
    /\ emit_event

\* the executor's result for the awaited step, for one reply of the agent
result_for(reply) == executor_execute(pipeline.steps[current], reply)

\* the reply given to the awaited step and the attempt it ran as
answer(reply) ==
    [step |-> current, attempt |-> state[current].attempt, reply |-> reply]

\* execute_step, ExecutionResult::Success; lines 291-331
StepSuccess ==
    /\ UNCHANGED driver_vars
    /\ pc = "exec"
    /\ \E reply \in Replies :
         LET r == result_for(reply)
             next == r.target
             marked == [state EXCEPT ![current] = mark_step_success(@, "reply")]
         IN /\ r.kind = "Success"
            /\ answered' = answer(reply)
            /\ events' = events
                   \o <<Event("StepOutput", current, 0, "reply"),
                        Event("StepCompleted", current, 0, next)>>
            /\ IF next # None
               THEN /\ state' = IF next \in Steps
                                THEN [marked EXCEPT ![next] = route_reset(@)]
                                ELSE marked
                    /\ explicit_queue' = enqueue(explicit_queue, next)
                    /\ routed' = [from |-> current, to |-> next, prior |-> marked[next]]
                    /\ chain_runs' = IF next \in Steps /\ is_terminal(marked[next])
                                     THEN [chain_runs EXCEPT ![next] = 0]
                                     ELSE chain_runs
               ELSE /\ state' = marked
                    /\ routed' = NoRoute
                    /\ UNCHANGED <<explicit_queue, chain_runs>>
    /\ verdicts' = [verdicts EXCEPT ![current] = Append(@, "Success")]
    /\ pc' = after_step(step_ids)
    /\ current' = None
    /\ UNCHANGED <<pipeline, max_retries, strategy, status, step_ids, outcome,
                   executions>>
    /\ emit_event

\* handle_continuation, ContinueAction::Retry; lines 400-423
StepContinueRetry ==
    /\ UNCHANGED driver_vars
    /\ pc = "exec"
    /\ \E reply \in Replies :
         LET r == result_for(reply)
         IN /\ r.kind = "Continue"
            /\ r.action = "Retry"
            /\ answered' = answer(reply)
            /\ events' = Append(events, Event("StepContinued", current, 0, "Retry"))
    /\ state' = [state EXCEPT ![current] = retry_state(@)]
    /\ explicit_queue' = enqueue(explicit_queue, current)
    /\ routed' = NoRoute
    /\ verdicts' = [verdicts EXCEPT ![current] = Append(@, "Retry")]
    /\ pc' = after_step(step_ids)
    /\ current' = None
    /\ UNCHANGED <<pipeline, max_retries, strategy, status, step_ids, outcome,
                   executions, chain_runs>>
    /\ emit_event

\* handle_continuation, ContinueAction::Route; lines 424-472
StepContinueRoute ==
    /\ UNCHANGED driver_vars
    /\ pc = "exec"
    /\ \E reply \in Replies :
         LET r == result_for(reply)
             target_id == r.target
             marked == [state EXCEPT ![current] =
                           Completed("", IF @.tag = "Running" THEN @.attempt ELSE 1)]
         IN /\ r.kind = "Continue"
            /\ r.action = "Route"
            /\ answered' = answer(reply)
            /\ events' = events \o emit_continuation_route(current, target_id)
            /\ state' = IF target_id \in Steps
                        THEN [marked EXCEPT ![target_id] = continuation_reset(@)]
                        ELSE marked
            /\ explicit_queue' = enqueue(explicit_queue, target_id)
            /\ routed' = [from |-> current, to |-> target_id, prior |-> marked[target_id]]
            /\ chain_runs' = IF target_id \in Steps
                             THEN [chain_runs EXCEPT ![target_id] = 0]
                             ELSE chain_runs
    /\ verdicts' = [verdicts EXCEPT ![current] = Append(@, "Route")]
    /\ pc' = after_step(step_ids)
    /\ current' = None
    /\ UNCHANGED <<pipeline, max_retries, strategy, status, step_ids, outcome,
                   executions>>
    /\ emit_event

\* execute_step, ExecutionResult::FailedWithRoute; lines 335-376
StepFailedWithRoute ==
    /\ UNCHANGED driver_vars
    /\ pc = "exec"
    /\ \E reply \in Replies :
         LET r == result_for(reply)
             next_step == r.target
             marked == [state EXCEPT ![current] =
                           mark_step_failed(r.error, state[current].attempt)]
         IN /\ r.kind = "FailedWithRoute"
            /\ answered' = answer(reply)
            /\ events' = events
                   \o <<Event("StepFailed", current, 0, r.error),
                        Event("StepRerouted", current, 0, next_step)>>
            /\ state' = IF next_step \in Steps
                        THEN [marked EXCEPT ![next_step] = route_reset(@)]
                        ELSE marked
            /\ explicit_queue' = enqueue(explicit_queue, next_step)
            /\ routed' = [from |-> current, to |-> next_step, prior |-> marked[next_step]]
            /\ chain_runs' = IF next_step \in Steps /\ is_terminal(marked[next_step])
                             THEN [chain_runs EXCEPT ![next_step] = 0]
                             ELSE chain_runs
    \* mark_step_failed fails the pipeline; a Failed status is then put back
    /\ status' = "Running"
    /\ verdicts' = [verdicts EXCEPT ![current] = Append(@, "FailedWithRoute")]
    /\ pc' = after_step(step_ids)
    /\ current' = None
    /\ UNCHANGED <<pipeline, max_retries, strategy, step_ids, outcome, executions>>
    /\ emit_event

\* execute_step, ExecutionResult::Failed; lines 377-379
StepFailed ==
    /\ UNCHANGED driver_vars
    /\ pc = "exec"
    /\ \E reply \in Replies :
         LET r == result_for(reply)
         IN /\ r.kind = "Failed"
            /\ answered' = answer(reply)
            /\ events' = Append(events, Event("StepFailed", current, 0, r.error))
            /\ state' = [state EXCEPT ![current] =
                            mark_step_failed(r.error, state[current].attempt)]
    /\ status' = "Failed"
    /\ routed' = NoRoute
    /\ verdicts' = [verdicts EXCEPT ![current] = Append(@, "Failed")]
    /\ pc' = after_step(step_ids)
    /\ current' = None
    /\ UNCHANGED <<pipeline, max_retries, strategy, explicit_queue, step_ids,
                   outcome, executions, chain_runs>>
    /\ emit_event

Next ==
    \/ Start
    \/ LoopExit
    \/ SelectBatch
    \/ EmptyBatch
    \/ ExecuteStep
    \/ StepSuccess
    \/ StepContinueRetry
    \/ StepContinueRoute
    \/ StepFailedWithRoute
    \/ StepFailed

Spec == Init /\ [][Next]_vars

\* run_pipeline: add_event_handler is called, then execute; main.rs lines 87-104.
\* add_event_handler only spawns the task that pushes the handler, and the
\* task runs at any point of the execution; engine.rs lines 81-89
RegisterHandler ==
    /\ event_handlers = <<>>
    /\ event_handlers' = <<"console">>
    /\ UNCHANGED <<pipeline, max_retries, strategy, state, status, explicit_queue,
                   pc, step_ids, current, outcome, executions, chain_runs,
                   verdicts, routed, answered, events, received>>
    /\ UNCHANGED driver_vars

RunPipelineNext ==
    \/ RegisterHandler
    \/ Start
    \/ LoopExit
    \/ SelectBatch
    \/ EmptyBatch
    \/ ExecuteStep
    \/ StepSuccess
    \/ StepContinueRetry
    \/ StepContinueRoute
    \/ StepFailedWithRoute
    \/ StepFailed

RunPipelineSpec == Init /\ [][RunPipelineNext]_vars

\* ------------------------------------------------------------------------
\* Subprocess driver (agent/subprocess_client.rs execute_streaming) and the
\* event parser (agent/pi_events.rs)
\* ------------------------------------------------------------------------

\* the delta and content strings the child sends
Deltas == {<<"a">>, <<"b">>}

Contents == {<<"z">>}

\* the lines the child may write
Lines ==
    {WireLine("empty", None, None, FALSE, <<>>, FALSE, <<>>),
     WireLine("text", None, None, FALSE, <<>>, FALSE, <<>>),
     WireLine("object", "agent_start", None, FALSE, <<>>, FALSE, <<>>),
     WireLine("object", "no_such_event", None, FALSE, <<>>, FALSE, <<>>),
     WireLine("object", "message_update", None, FALSE, <<>>, FALSE, <<>>),
     WireLine("object", "message_update", "no_such_event", TRUE, <<>>, FALSE, <<>>),
     WireLine("object", "message_update", "thinking_delta", TRUE, <<"a">>, FALSE, <<>>),
     WireLine("object", "message_update", "text_delta", FALSE, <<"a">>, FALSE, <<>>),
     WireLine("object", "message_update", "text_end", TRUE, <<>>, FALSE, <<>>)}
    \cup {WireLine("object", "message_update", "text_delta", TRUE, d, FALSE, <<>>) :
            d \in Deltas}
    \cup {WireLine("object", "message_update", "text_end", TRUE, <<>>, TRUE, c) :
            c \in Contents}

\* a PiJsonEvent: its variant and, for MessageUpdate, the AssistantMessageEvent
\* it carries
ParsedEvent(variant, nested, delta, has_content, content) ==
    [variant |-> variant, nested |-> nested, delta |-> delta,
     has_content |-> has_content, content |-> content]

\* serde_json::from_str returned Err
ParseError == ParsedEvent("ParseError", None, <<>>, FALSE, <<>>)

\* serde(rename_all = "snake_case") of the PiJsonEvent variants without fields
unit_variant(type) ==
    CASE type = "agent_start" -> "AgentStart"
      [] type = "agent_end" -> "AgentEnd"
      [] type = "turn_start" -> "TurnStart"
      [] type = "message_start" -> "MessageStart"
      [] type = "message_end" -> "MessageEnd"
      [] OTHER -> None

\* the AssistantMessageEvent variants that carry contentIndex and a string
nested_variant(type) ==
    CASE type = "thinking_delta" -> "ThinkingDelta"
      [] type = "text_delta" -> "TextDelta"
      [] type = "text_end" -> "TextEnd"
      [] OTHER -> "Other"

\* serde_json::from_str::<PiJsonEvent>(&line)
parse(l) ==
    IF l.raw # "object" THEN ParseError
    ELSE IF l.type = "message_update"
         THEN IF l.nested = None
              THEN ParsedEvent("MessageUpdate", None, <<>>, FALSE, <<>>)
              ELSE IF nested_variant(l.nested) = "Other"
                   THEN ParsedEvent("MessageUpdate", "Other", <<>>, FALSE, <<>>)
              ELSE IF ~l.index THEN ParseError
              ELSE IF nested_variant(l.nested) = "TextEnd"
                   THEN ParsedEvent("MessageUpdate", "TextEnd", <<>>,
                                    l.has_content, l.content)
              ELSE ParsedEvent("MessageUpdate", nested_variant(l.nested),
                               l.delta, FALSE, <<>>)
    ELSE IF unit_variant(l.type) # None
         THEN ParsedEvent(unit_variant(l.type), None, <<>>, FALSE, <<>>)
    ELSE ParseError

\* an accumulator that trusts the content of text_end
accumulate_from_text_end(text, event) ==
    IF event.variant = "MessageUpdate" /\ event.nested = "TextDelta"
    THEN text \o event.delta
    ELSE IF event.variant = "MessageUpdate" /\ event.nested = "TextEnd"
            /\ event.has_content
         THEN event.content
    ELSE text

\* the match on the parsed event: only TextDelta touches the accumulator
accumulate(text, event) ==
    IF event.variant = "MessageUpdate" /\ event.nested = "TextDelta"
    THEN text \o event.delta
    ELSE text

\* a callback list that takes the newest event first
deliver_front(log, event) == <<event>> \o log

\* cb.on_event(&event)
deliver(log, event) == Append(log, event)

\* a parse failure that ends the call
after_parse_failure_fatal ==
    [pc |-> "returned",
     response |-> [kind |-> "Err", content |-> <<>>, error |-> "Api"]]

\* the Err arm of the parse: warn! and go on with the loop
after_parse_failure == [pc |-> "reading", response |-> NoResponse]

\* a child handle without kill_on_drop
drop_child_detached(c) == c

\* dropping the Child handle, spawned with kill_on_drop(true)
drop_child(c) == IF c = "running" THEN "killed" ELSE c

Ok(content) == [kind |-> "Ok", content |-> content, error |-> None]

Err(error) == [kind |-> "Err", content |-> <<>>, error |-> error]

\* the engine while it awaits the executor call of a step
EngineAwaiting ==
    /\ pipeline = NoHandlerTask
    /\ max_retries = [s \in DOMAIN pipeline.steps |-> 0]
    /\ strategy = Sequential
    /\ state = [s \in DOMAIN pipeline.steps |-> Running(1)]
    /\ status = "Running"
    /\ explicit_queue = <<>>
    /\ pc = "exec"
    /\ step_ids = <<>>
    /\ current = "task"
    /\ outcome = None
    /\ executions = [s \in DOMAIN pipeline.steps |-> 1]
    /\ chain_runs = [s \in DOMAIN pipeline.steps |-> 1]
    /\ verdicts = [s \in DOMAIN pipeline.steps |-> <<>>]
    /\ routed = NoRoute
    /\ answered = NoAnswer
    /\ events = <<Event("PipelineStarted", None, 0, None),
                  Event("StepStarted", "task", 1, None)>>
    /\ event_handlers = <<>>
    /\ received = <<>>

DriverInit ==
    /\ EngineAwaiting
    /\ NoAgentCall

\* Command::spawn and child.stdout.take(); lines 99-111
Spawn ==
    /\ driver_pc = "idle"
    /\ ~interrupted
    /\ execution_result = NoResult
    /\ \E cb \in BOOLEAN : callback' = cb
    /\ \/ /\ child' = "running"
          /\ stdout_open' = TRUE
          /\ driver_pc' = "reading"
          /\ response' = NoResponse
       \/ /\ child' = None
          /\ stdout_open' = FALSE
          /\ driver_pc' = "returned"
          /\ response' = Err("Internal")
    /\ UNCHANGED <<line, arrived, accumulated_text, delivered>>
    /\ UNCHANGED engine_vars
    /\ UNCHANGED <<interrupted, execution_result>>

\* lines.next_line() returned Ok(Some(line)); an empty line is skipped
NextLine ==
    /\ driver_pc = "reading"
    /\ stdout_open
    /\ Len(arrived) < MaxLines
    /\ \E l \in Lines :
         /\ arrived' = Append(arrived, l)
         /\ IF l.raw = "empty"
            THEN UNCHANGED <<driver_pc, line>>
            ELSE /\ line' = l
                 /\ driver_pc' = "handling"
    /\ UNCHANGED <<callback, child, stdout_open, accumulated_text, delivered,
                   response>>
    /\ UNCHANGED engine_vars
    /\ UNCHANGED <<interrupted, execution_result>>

\* the body of the loop for a non-empty line: parse, accumulate, call back
HandleLine ==
    /\ driver_pc = "handling"
    /\ LET event == parse(line)
       IN IF event = ParseError
          THEN /\ driver_pc' = after_parse_failure.pc
               /\ response' = after_parse_failure.response
               /\ child' = IF after_parse_failure.pc = "returned"
                           THEN drop_child(child) ELSE child
               /\ UNCHANGED <<accumulated_text, delivered>>
          ELSE /\ accumulated_text' = accumulate(accumulated_text, event)
               /\ delivered' = IF callback THEN deliver(delivered, event)
                               ELSE delivered
               /\ driver_pc' = "reading"
               /\ UNCHANGED <<response, child>>
    /\ line' = NoLine
    /\ UNCHANGED <<callback, stdout_open, arrived>>
    /\ UNCHANGED engine_vars
    /\ UNCHANGED <<interrupted, execution_result>>

\* no line within timeout_secs: Err(AgentError::Timeout); lines 121-123
LineTimeout ==
    /\ driver_pc = "reading"
    /\ stdout_open
    /\ response' = Err("Timeout")
    /\ driver_pc' = "returned"
    /\ child' = drop_child(child)
    /\ UNCHANGED <<callback, stdout_open, line, arrived, accumulated_text,
                   delivered>>
    /\ UNCHANGED engine_vars
    /\ UNCHANGED <<interrupted, execution_result>>

\* next_line returned Err: Err(AgentError::Internal); lines 172-174
ReadError ==
    /\ driver_pc = "reading"
    /\ stdout_open
    /\ response' = Err("Internal")
    /\ driver_pc' = "returned"
    /\ child' = drop_child(child)
    /\ UNCHANGED <<callback, stdout_open, line, arrived, accumulated_text,
                   delivered>>
    /\ UNCHANGED engine_vars
    /\ UNCHANGED <<interrupted, execution_result>>

\* next_line returned Ok(None): end of output; lines 168-171
EndOfOutput ==
    /\ driver_pc = "reading"
    /\ ~stdout_open
    /\ driver_pc' = "waiting"
    /\ UNCHANGED <<callback, child, stdout_open, line, arrived,
                   accumulated_text, delivered, response>>
    /\ UNCHANGED engine_vars
    /\ UNCHANGED <<interrupted, execution_result>>

\* child.wait() returned the exit status; lines 178-200
WaitExited ==
    /\ driver_pc = "waiting"
    /\ child \in {"exited_ok", "exited_fail"}
    /\ response' = IF child = "exited_ok" THEN Ok(accumulated_text)
                   ELSE Err("Api")
    /\ driver_pc' = "returned"
    /\ child' = drop_child(child)
    /\ UNCHANGED <<callback, stdout_open, line, arrived, accumulated_text,
                   delivered>>
    /\ UNCHANGED engine_vars
    /\ UNCHANGED <<interrupted, execution_result>>

\* the child did not exit within timeout_secs: Err(AgentError::Timeout)
WaitTimeout ==
    /\ driver_pc = "waiting"
    /\ child = "running"
    /\ response' = Err("Timeout")
    /\ driver_pc' = "returned"
    /\ child' = drop_child(child)
    /\ UNCHANGED <<callback, stdout_open, line, arrived, accumulated_text,
                   delivered>>
    /\ UNCHANGED engine_vars
    /\ UNCHANGED <<interrupted, execution_result>>

\* child.wait() returned Err: Err(AgentError::Internal); line 182
WaitError ==
    /\ driver_pc = "waiting"
    /\ response' = Err("Internal")
    /\ driver_pc' = "returned"
    /\ child' = drop_child(child)
    /\ UNCHANGED <<callback, stdout_open, line, arrived, accumulated_text,
                   delivered>>
    /\ UNCHANGED engine_vars
    /\ UNCHANGED <<interrupted, execution_result>>

\* the future of execute_streaming is dropped at one of its awaits: the
\* executor's per-step timeout fired (executor.rs:75-79, 87-92) or the
\* enclosing task was cancelled
Cancelled ==
    /\ driver_pc \in {"reading", "waiting"}
    /\ driver_pc' = "dropped"
    /\ child' = drop_child(child)
    /\ UNCHANGED <<callback, stdout_open, line, arrived, accumulated_text,
                   delivered, response>>
    /\ UNCHANGED engine_vars
    /\ UNCHANGED <<interrupted, execution_result>>

\* the child exits on its own
ChildExit ==
    /\ child = "running"
    /\ \E ok \in BOOLEAN : child' = IF ok THEN "exited_ok" ELSE "exited_fail"
    /\ UNCHANGED <<driver_pc, callback, stdout_open, line, arrived,
                   accumulated_text, delivered, response>>
    /\ UNCHANGED engine_vars
    /\ UNCHANGED <<interrupted, execution_result>>

\* the last write end of the child's standard output is closed
CloseStdout ==
    /\ stdout_open
    /\ driver_pc \in {"reading", "handling"}
    /\ stdout_open' = FALSE
    /\ UNCHANGED <<driver_pc, callback, child, line, arrived, accumulated_text,
                   delivered, response>>
    /\ UNCHANGED engine_vars
    /\ UNCHANGED <<interrupted, execution_result>>

\* the pattern of a step occurs in the text (ConditionPattern::matches)
contains(text, pattern) == \E i \in 1..Len(text) : text[i] = pattern

\* the reply the executor reads from the content of an AgentResponse: the
\* success pattern of the step is "a", its continuation pattern "b"
reply_of(content) ==
    [kind |-> "text", succ |-> contains(content, "a"),
     cont |-> contains(content, "b")]

\* ExecutionResult::Interrupted
Interrupted(accumulated_output) ==
    [kind |-> "Interrupted", action |-> None, target |-> None, error |-> None,
     accumulated_output |-> accumulated_output]

\* the other variants of ExecutionResult
Uninterrupted(r) ==
    [kind |-> r.kind, action |-> r.action, target |-> r.target,
     error |-> r.error, accumulated_output |-> <<>>]

\* StepExecutor::execute_interruptible once the timeout around the driver
\* call has resolved: elapsed, Ok(Err(e)) or Ok(Ok(response))
execute_interruptible(def, elapsed, resp, flag) ==
    IF elapsed
    THEN IF flag THEN Interrupted(<<>>)
         ELSE Uninterrupted(Result("Failed", None, None, "Timeout"))
    ELSE IF resp.kind = "Err"
         THEN IF flag THEN Interrupted(<<>>)
              ELSE Uninterrupted(Result("Failed", None, None, resp.error))
    ELSE IF flag THEN Interrupted(resp.content)
    ELSE Uninterrupted(executor_execute(def, reply_of(resp.content)))

\* interrupted.store(true): the signal handler sets the flag
SetInterrupted ==
    /\ ~interrupted
    /\ execution_result = NoResult
    /\ interrupted' = TRUE
    /\ UNCHANGED <<driver_pc, callback, child, stdout_open, line, arrived,
                   accumulated_text, delivered, response, execution_result>>
    /\ UNCHANGED engine_vars

\* execute_interruptible, the check before the driver is called; lines 185-194
InterruptedBeforeStart ==
    /\ driver_pc = "idle"
    /\ interrupted
    /\ execution_result = NoResult
    /\ execution_result' = Interrupted(<<>>)
    /\ UNCHANGED <<driver_pc, callback, child, stdout_open, line, arrived,
                   accumulated_text, delivered, response, interrupted>>
    /\ UNCHANGED engine_vars

\* execute_interruptible after the driver call: it returned or the per-step
\* timeout dropped it; lines 200-322
ExecutorReturn ==
    /\ driver_pc \in {"returned", "dropped"}
    /\ execution_result = NoResult
    /\ execution_result' =
           execute_interruptible(pipeline.steps[current], driver_pc = "dropped",
                                 response, interrupted)
    /\ UNCHANGED <<driver_pc, callback, child, stdout_open, line, arrived,
                   accumulated_text, delivered, response, interrupted>>
    /\ UNCHANGED engine_vars

DriverNext ==
    \/ SetInterrupted
    \/ InterruptedBeforeStart
    \/ ExecutorReturn
    \/ Spawn
    \/ NextLine
    \/ HandleLine
    \/ LineTimeout
    \/ ReadError
    \/ EndOfOutput
    \/ WaitExited
    \/ WaitTimeout
    \/ WaitError
    \/ Cancelled
    \/ ChildExit
    \/ CloseStdout

DriverSpec == DriverInit /\ [][DriverNext]_vars

\* ------------------------------------------------------------------------
\* Properties
\* ------------------------------------------------------------------------

finished == pc = "done"

deps_of(s) == Range(pipeline.steps[s].dependencies)

Last(seq) == seq[Len(seq)]

\* C1: along one chain of retries (the executions of a step since routing last
\* landed on it) a step with max_retries = N enters Running at most N+1 times;
\* with N = 0 that is once, and such a step is never Running as a retry.
C1_AttemptsWithinRetryLimit ==
    \A s \in Steps :
        /\ chain_runs[s] <= max_retries[s] + 1
        /\ (max_retries[s] = 0 /\ state[s].tag = "Running") => state[s].attempt = 1

\* a step that was retried and used its whole budget of N+1 executions
C1_Witness ==
    \E s \in Steps : chain_runs[s] >= 2 /\ chain_runs[s] = max_retries[s] + 1

\* C2: when execute has finished and a step with max_retries = N has answered
\* N+1 attempts with a retry, and no other step failed, the step is Failed with
\* "Exceeded retry limit", attempts = N+1, and the pipeline is Failed.
C2_RetryExhaustedFailsStep ==
    \A s \in Steps :
        ( /\ finished
          /\ verdicts[s] = [i \in 1..(max_retries[s] + 1) |-> "Retry"]
          /\ pipeline.steps[s].cont_action = "retry"
          /\ \A t \in Steps \ {s} : state[t].tag # "Failed" )
        => /\ state[s] = Failed("Exceeded retry limit", max_retries[s] + 1)
           /\ status = "Failed"

\* C3: a step that was sent to retry while it had retries left is executed
\* again: execute does not return leaving it Retrying (no step having failed).
C3_RetryIsExecutedAgain ==
    finished =>
        \A s \in Steps :
            ~ ( /\ state[s].tag = "Retrying"
                /\ verdicts[s] # <<>>
                /\ Last(verdicts[s]) = "Retry"
                /\ state[s].attempt <= max_retries[s] + 1
                /\ \A t \in Steps : state[t].tag # "Failed" )

\* C4: a step in a terminal state changes state only as the target of a
\* routed transition, and that transition puts it in Retrying.
C4_TerminalLeftOnlyByRouting ==
    [][ \A s \in Steps :
          (is_terminal(state[s]) /\ state'[s] # state[s])
          => (routed'.to = s /\ state'[s].tag = "Retrying") ]_vars

\* routing landed on a terminal step and reset it
C4_Witness ==
    /\ routed.to # None
    /\ is_terminal(routed.prior)
    /\ state[routed.to] = Retrying(routed.prior.attempt + 1)

C6_AttemptsEqualExecutions ==
    \A s \in Steps : is_terminal(state[s]) => state[s].attempt = executions[s]

\* a failure that was routed to its on_failure handler
routed_failure(s) ==
    state[s].tag = "Failed" /\ state[s].error = "No termination pattern found"

\* C7: when execute has finished, the status is Completed iff every step is
\* Completed or Skipped, a Failed step counting only if its failure was
\* routed to a handler (no failure remains unrecovered).
C7_CompletedIffAllStepsDone ==
    finished =>
        ( status = "Completed"
          <=> \A s \in Steps :
                 state[s].tag \in {"Completed", "Skipped"} \/ routed_failure(s) )

\* C8: in the failure-routing pipeline, when risky_task answered without its
\* success sentinel and fallback answers nothing but success, the run ends
\* Completed with risky_task Failed and fallback Completed.
C8_FailureRoutingRunsHandler ==
    ( /\ pipeline = FailureRouting
      /\ finished
      /\ verdicts["risky_task"] = <<"FailedWithRoute">>
      /\ verdicts["fallback"] \in {<<>>, <<"Success">>} )
    => /\ status = "Completed"
       /\ state["risky_task"].tag = "Failed"
       /\ state["fallback"].tag = "Completed"

\* C9: a step is Running only if every step in its depends_on is terminal.
C9_RunningOnlyWithTerminalDeps ==
    \A s \in Steps :
        state[s].tag = "Running" => \A dep \in deps_of(s) : is_terminal(state[dep])

\* a Pending or Retrying step whose dependencies are all Completed or Failed,
\* at least one of them Failed
deps_done_with_failure(s) ==
    /\ state[s].tag \in {"Pending", "Retrying"}
    /\ \A dep \in deps_of(s) : state[dep].tag \in {"Completed", "Failed"}
    /\ \E dep \in deps_of(s) : state[dep].tag = "Failed"

\* C10: a Failed dependency satisfies as a Completed one does: at every tick
\* a Pending or Retrying step whose dependencies are all Completed or Failed
\* (here: some of them Failed) is selectable, from the explicit queue when it
\* is queued and from the strategy when the queue is empty.
C10_FailedDependencySatisfies ==
    (pc = "loop" /\ ~(is_complete \/ has_failed)) =>
        \A ids \in next_steps :
            IF explicit_queue # <<>>
            THEN \A s \in Range(explicit_queue) :
                    deps_done_with_failure(s) =>
                        /\ ids # <<>>
                        /\ strategy.kind # "Sequential" => s \in Range(ids)
            ELSE (\E s \in Steps : deps_done_with_failure(s)) =>
                    /\ ids # <<>>
                    /\ strategy.kind = "Parallel" =>
                          {s \in Steps : deps_done_with_failure(s)} \subseteq Range(ids)

\* C11: whenever routing of any kind (success next, failure route or
\* continuation route) lands on a target step, the target is Retrying right
\* after it, with attempt = its prior recorded attempts + 1 if it was
\* terminal, and attempt 1 otherwise.
C11_RoutedTargetAttempt ==
    routed.to # None =>
        state[routed.to] =
            Retrying(IF is_terminal(routed.prior) THEN routed.prior.attempt + 1 ELSE 1)

\* C12: max_retries bounds the executions of a step across routing as well:
\* whatever routes lead back to it, a step with max_retries = N is executed
\* at most N+1 times in one run.
C12_RetryLimitAcrossRouting ==
    \A s \in Steps : executions[s] <= max_retries[s] + 1

\* C13: the pipeline ends when every step is terminal: apart from the stuck
\* pipeline (execute returns an error) and a run that a failure has ended
\* (status Failed), execute does not finish while a step is not terminal.
C13_EndsOnlyWhenAllTerminal ==
    finished => (all_terminal \/ outcome = "Err" \/ status = "Failed")

\* C14: a tick at which the scheduler returns no step, no step is Running and
\* not every step is terminal ends the run as stuck: the pipeline is marked
\* Failed and execute returns its diagnostic; it is never finished Completed.
C14_StuckPipelineFails ==
    [][ ( /\ pc = "loop"
          /\ ~(is_complete \/ has_failed)
          /\ <<>> \in next_steps
          /\ running_steps = {}
          /\ ~all_terminal )
        => (pc' = "done" /\ status' = "Failed" /\ outcome' = "Err") ]_vars

IsPrefix(a, b) == Len(a) <= Len(b) /\ \A i \in 1..Len(a) : a[i] = b[i]

\* the queued steps that were never dispatched, in queue order
queued_undispatched ==
    SelectSeq(explicit_queue, LAMBDA id : state[id].tag = "Pending")

\* the queued steps that are Pending with every dependency Completed, in
\* queue order
queued_ready ==
    SelectSeq(explicit_queue,
        LAMBDA id : /\ state[id].tag = "Pending"
                    /\ \A dep \in deps_of(id) : state[dep].tag = "Completed")

\* a step re-requested by routing or by retry goes to the back of the queue,
\* and nothing else changes the queue
enqueued_at_back ==
    /\ routed'.to # None => explicit_queue' = Append(explicit_queue, routed'.to)
    /\ (pc = "exec" /\ verdicts'[current] = Append(verdicts[current], "Retry"))
          => explicit_queue' = Append(explicit_queue, current)
    /\ explicit_queue' # explicit_queue
          => (routed'.to # None \/ (pc = "exec" /\ state'[current].tag = "Retrying"))

\* a tick that finds the queue non-empty and returns a batch
queue_tick == pc = "loop" /\ pc' = "batch" /\ explicit_queue # <<>>

tick == pc = "loop" /\ ~(is_complete \/ has_failed)

\* the steps a tick may return by the strategies' rule: Pending or Retrying
\* with every dependency terminal
runnable ==
    {s \in with_state({"Pending", "Retrying"}) :
        \A dep \in deps_of(s) : is_terminal(state[dep])}

\* the first runnable step in topological order
first_runnable ==
    LET order == execution_order
        i == CHOOSE k \in DOMAIN order :
                 /\ order[k] \in runnable
                 /\ \A l \in 1..(k - 1) : order[l] \notin runnable
    IN order[i]

\* C16: under Sequential every tick returns at most one step, and when some
\* step is runnable (Pending or Retrying, every dependency terminal) it
\* returns one such step: the first in topological order when the explicit
\* queue is empty, a queued one otherwise.
C16_SequentialReturnsFirstRunnable ==
    (tick /\ strategy.kind = "Sequential") =>
        \A ids \in next_steps :
            /\ Len(ids) <= 1
            /\ runnable # {} =>
                  /\ Len(ids) = 1
                  /\ ids[1] \in runnable
                  /\ explicit_queue = <<>> => ids[1] = first_runnable

\* C17: under Parallel a tick returns no step that is not runnable, every
\* runnable step when the explicit queue is empty, and every queued runnable
\* step otherwise.
C17_ParallelReturnsAllRunnable ==
    (tick /\ strategy.kind = "Parallel") =>
        \A ids \in next_steps :
            /\ Range(ids) \subseteq runnable
            /\ explicit_queue = <<>> => Range(ids) = runnable
            /\ explicit_queue # <<>> =>
                  (runnable \cap Range(explicit_queue)) \subseteq Range(ids)

\* C18: under LimitedParallel(n) a tick returns at most n minus the number of
\* Running steps, from the explicit queue as from the ready set, and at no
\* time are more than n steps Running.
C18_LimitedParallelCap ==
    strategy.kind = "LimitedParallel" =>
        /\ Cardinality(running_steps) <= strategy.max
        /\ tick => \A ids \in next_steps :
                      Len(ids) <= strategy.max - Cardinality(running_steps)
        /\ pc = "batch" =>
              Len(step_ids) + Cardinality(running_steps) <= strategy.max

\* a batch of n > 1 steps was taken from the explicit queue under
\* LimitedParallel(n)
C18_Witness ==
    /\ strategy.kind = "LimitedParallel"
    /\ strategy.max > 1
    /\ pc = "batch"
    /\ current = None
    /\ explicit_queue # <<>>
    /\ step_ids = queued_ready
    /\ Len(step_ids) = strategy.max

\* the step whose reply was just interpreted, and its definition
answered_def == pipeline.steps[answered.step]

\* C19: a reply that contains both the success sentinel and the continuation
\* sentinel of a step is answered with Continue and the configured action
\* (retry: the step is Retrying and queued; route: the step is Completed with
\* empty output, or reset as its own target, and the target is routed to),
\* never with Success.
C19_ContinuationWinsOverSuccess ==
    ( /\ answered.step # None
      /\ answered.reply.kind = "text"
      /\ answered.reply.succ
      /\ answered.reply.cont
      /\ answered_def.cont_action # None )
    => IF answered_def.cont_action = "retry"
       THEN /\ Last(verdicts[answered.step]) = "Retry"
            /\ state[answered.step] = Retrying(answered.attempt + 1)
            /\ Last(explicit_queue) = answered.step
       ELSE /\ Last(verdicts[answered.step]) = "Route"
            /\ state[answered.step] =
                   IF answered_def.cont_target = answered.step
                   THEN Retrying(answered.attempt)
                   ELSE Completed("", answered.attempt)
            /\ routed.from = answered.step
            /\ routed.to = answered_def.cont_target

\* a step with a continuation route got a reply with both sentinels
C19_Witness ==
    /\ answered.step # None
    /\ answered.reply.kind = "text"
    /\ answered.reply.succ
    /\ answered.reply.cont
    /\ answered_def.cont_action = "route"
    /\ Last(verdicts[answered.step]) = "Route"

failure_text(reply) ==
    IF reply.kind = "timeout" THEN "Timeout" ELSE "agent error"

\* C21: when the agent call of a step times out or returns an error, the
\* outcome is Failed: the step is marked Failed with the attempt it was
\* running, the pipeline status becomes Failed and StepFailed is the event
\* emitted for it.
C21_AgentFailureFailsStepAndPipeline ==
    answered.reply.kind \in {"timeout", "error"} =>
        /\ Last(verdicts[answered.step]) = "Failed"
        /\ state[answered.step]
             = Failed(failure_text(answered.reply), answered.attempt)
        /\ status = "Failed"
        /\ Last(events)
             = Event("StepFailed", answered.step, 0, failure_text(answered.reply))

\* a step on its second attempt whose agent call timed out
C21_Witness ==
    /\ answered.reply.kind = "timeout"
    /\ answered.attempt = 2
    /\ state[answered.step].tag = "Failed"
    /\ status = "Failed"

\* C22: a step whose agent call ran past timeout_secs is reported as a step
\* failure, and while the step has retries remaining (the attempt that timed
\* out used fewer than max_retries retries) it is retried: it is Retrying and
\* the pipeline keeps Running.
C22_TimeoutRetriedWhileRetriesRemain ==
    answered.reply.kind = "timeout" =>
        /\ Last(events).type = "StepFailed"
        /\ Last(events).step = answered.step
        /\ answered.attempt - 1 < max_retries[answered.step] =>
               /\ state[answered.step].tag = "Retrying"
               /\ status = "Running"

\* the steps in the order in which they were started (StepStarted events)
started_events == SelectSeq(events, LAMBDA e : e.type = "StepStarted")

started_steps == [i \in 1..Len(started_events) |-> started_events[i].step]

\* every reply interpreted so far carried the success pattern
only_successes ==
    \A s \in Steps : \A i \in 1..Len(verdicts[s]) : verdicts[s][i] = "Success"

\* C23: in the chain plan -> implement -> review (depends_on plus on_success)
\* with only successful replies the steps are started in exactly the order
\* plan, implement, review, each once, and the run ends with every step
\* Completed with attempts = 1 and the pipeline Completed.
C23_SuccessChainRunsInOrder ==
    (pipeline = SuccessChain /\ only_successes) =>
        /\ IsPrefix(started_steps, <<"plan", "implement", "review">>)
        /\ finished =>
               /\ started_steps = <<"plan", "implement", "review">>
               /\ \A s \in Steps : /\ state[s].tag = "Completed"
                                   /\ state[s].attempt = 1
                                   /\ executions[s] = 1
               /\ status = "Completed"
               /\ outcome = "Ok"

\* the chain has run to its end on three successful replies
C23_Witness ==
    /\ pipeline = SuccessChain
    /\ only_successes
    /\ finished
    /\ started_steps = <<"plan", "implement", "review">>
    /\ status = "Completed"

\* the verdicts of step s begin with the verdicts in seq
verdicts_begin(s, seq) == IsPrefix(seq, verdicts[s])

\* C24: in the review loop (implement on_success review; review on_failure
\* implement, on_success deploy) whose first review is rejected, the run ends
\* Completed with implement and review each executed at least twice
\* (attempts >= 2) and deploy executed once (attempts = 1).
C24_ReviewLoopCompletes ==
    (/\ pipeline = ReviewLoop
     /\ finished
     /\ verdicts_begin("implement", <<"Success">>)
     /\ verdicts_begin("review", <<"FailedWithRoute">>)
     /\ \A s \in Steps : \A i \in 1..Len(verdicts[s]) :
            verdicts[s][i] \in {"Success", "FailedWithRoute"}) =>
        /\ status = "Completed"
        /\ state["implement"].tag = "Completed" /\ state["implement"].attempt >= 2
        /\ state["review"].tag = "Completed" /\ state["review"].attempt >= 2
        /\ state["deploy"].tag = "Completed" /\ state["deploy"].attempt = 1
        /\ executions["implement"] >= 2
        /\ executions["review"] >= 2
        /\ executions["deploy"] = 1

\* the error texts that mention the missing termination pattern
mentions_termination(error) == error = "No termination pattern found"

\* C25: a step with a success pattern, no on_failure handler and no
\* continuation whose single reply lacks the pattern ends the run with that
\* step Failed, its error mentioning 'termination', and the pipeline Failed.
C25_UnmatchedReplyWithoutHandlerFails ==
    (/\ pipeline = NoHandlerTask
     /\ finished
     /\ verdicts_begin("task", <<"Retry">>)
     /\ executions["task"] = 1) =>
        /\ state["task"].tag = "Failed"
        /\ mentions_termination(state["task"].error)
        /\ status = "Failed"

\* C26: when task2 fails and is routed to its on_failure handler fallback2,
\* its on_success target task3 (which depends on it) is never executed, and
\* the pipeline ends Completed once the handler has succeeded: at the end of
\* the run fallback2 is Completed, task3 has 0 attempts and the status is
\* Completed.
C26_FailureRouteSkipsSuccessTarget ==
    (/\ pipeline = MultipleFailureHandlers
     /\ finished
     /\ verdicts["task1"] = <<"Success">>
     /\ verdicts["task2"] = <<"FailedWithRoute">>
     /\ \A i \in 1..Len(verdicts["fallback2"]) :
            verdicts["fallback2"][i] = "Success") =>
        /\ executions["task3"] = 0
        /\ state["task3"].tag = "Pending"
        /\ state["fallback2"].tag = "Completed"
        /\ status = "Completed"

\* the lines that were read and have been handled by the loop body
handled_lines ==
    IF driver_pc = "handling" THEN SubSeq(arrived, 1, Len(arrived) - 1)
    ELSE arrived

\* a line that yields an event: not empty and accepted by the parser
yields_event(l) == l.raw # "empty" /\ parse(l) # ParseError

RECURSIVE events_of(_)
\* the events of a sequence of lines, in the order of the lines
events_of(ls) ==
    IF ls = <<>> THEN <<>>
    ELSE IF yields_event(Head(ls)) THEN <<parse(Head(ls))>> \o events_of(Tail(ls))
    ELSE events_of(Tail(ls))

RECURSIVE text_deltas_of(_)
\* the delta strings of the text_delta events among a sequence of events,
\* concatenated in order
text_deltas_of(es) ==
    IF es = <<>> THEN <<>>
    ELSE IF Head(es).variant = "MessageUpdate" /\ Head(es).nested = "TextDelta"
         THEN Head(es).delta \o text_deltas_of(Tail(es))
    ELSE text_deltas_of(Tail(es))

\* C27: a stdout line that is not valid JSON or carries an unknown event type
\* never aborts the stream: the step of the driver that handles it returns to
\* reading the next line, returns no error, and leaves the accumulator and
\* the events delivered to the observer as they were.
C27_UnparsableLineIsSkipped ==
    [][(/\ driver_pc = "handling"
        /\ parse(line) = ParseError
        /\ driver_pc' # driver_pc) =>
           /\ driver_pc' = "reading"
           /\ response' = NoResponse
           /\ child' = child
           /\ accumulated_text' = accumulated_text
           /\ delivered' = delivered]_vars

\* a call that returned Ok after a line that is no JSON and a line with an
\* unknown type arrived between valid events, all valid events delivered
C27_Witness ==
    /\ callback
    /\ response.kind = "Ok"
    /\ Len(arrived) = 3
    /\ yields_event(arrived[1])
    /\ arrived[2].raw = "text" \/ arrived[2].type = "no_such_event"
    /\ yields_event(arrived[3])
    /\ delivered = <<parse(arrived[1]), parse(arrived[3])>>

\* C28: the content the driver returns is the concatenation, in arrival
\* order, of the delta strings of all text_delta events, whether or not a
\* text_end carries a content.
C28_ContentIsConcatenationOfTextDeltas ==
    response.kind = "Ok" =>
        response.content = text_deltas_of(events_of(arrived))

\* two different deltas followed by a text_end that carries a content
C28_Witness ==
    /\ response.kind = "Ok"
    /\ Len(arrived) = 3
    /\ response.content = <<"b", "a">>
    /\ parse(arrived[3]).nested = "TextEnd"
    /\ parse(arrived[3]).has_content

\* C29: within one call the observer is invoked exactly once per successfully
\* parsed event, in arrival order, and each event is delivered before the
\* next line is read: whenever the driver is not in the middle of a line, the
\* events delivered are exactly the events of the lines read so far.
C29_ObserverSeesEachEventOnceInOrder ==
    /\ callback => delivered = events_of(handled_lines)
    /\ ~callback => delivered = <<>>

\* the driver about to read a third line, two different events delivered
C29_Witness ==
    /\ callback
    /\ driver_pc = "reading"
    /\ Len(arrived) = 2
    /\ Len(delivered) = 2
    /\ delivered[1] # delivered[2]

\* C30: whenever the driver stops waiting on the child (no line within the
\* deadline, the per-step timeout or a cancellation dropping the call, or any
\* return), the child does not keep running: it has exited or it was killed.
C30_ChildTerminatedWhenDriverStops ==
    driver_pc \in {"returned", "dropped"} => child # "running"

\* the call was dropped while the child was still running
C30_Witness ==
    /\ driver_pc = "dropped"
    /\ child = "killed"
    /\ stdout_open

\* C31: when the interrupted flag is set while a step is in flight, the
\* interruptible executor returns Interrupted, not Failed, and the result
\* carries the partial output accumulated so far, also when the driver call
\* ended with a timeout or a subprocess error.
C31_InterruptedCarriesPartialOutput ==
    [][(/\ execution_result = NoResult
        /\ execution_result' # NoResult
        /\ interrupted) =>
           /\ execution_result'.kind = "Interrupted"
           /\ execution_result'.accumulated_output = accumulated_text]_vars

\* some step failed without being routed to a handler: a StepFailed event
\* that is not directly followed by the StepRerouted of the same step
unhandled_failure ==
    \E i \in 1..Len(events) :
        /\ events[i].type = "StepFailed"
        /\ ~(/\ i < Len(events)
             /\ events[i + 1].type = "StepRerouted"
             /\ events[i + 1].step = events[i].step)

\* C32: a FailedWithRoute puts the pipeline status back to Running only if
\* that same step had set it to Failed: a status that is already Failed
\* through another step's unhandled failure is never erased, and a run that
\* returns Ok ends Failed exactly if some step failed unhandled.
C32_FailedStatusNeverErased ==
    [][/\ status = "Failed" => status' = "Failed"
       /\ (pc' = "done" /\ outcome' = "Ok") =>
              (status' = "Failed" <=> unhandled_failure')]_vars

\* C33: once the pipeline status has become Failed through an unhandled step
\* failure, no further step is started in that run, the remaining steps of a
\* batch already selected under Parallel or LimitedParallel included: no
\* StepStarted event is emitted from a state whose status is Failed.
C33_NoStepStartedAfterFailure ==
    [][status = "Failed" =>
          ~(/\ Len(events') > Len(events)
            /\ \E i \in (Len(events) + 1)..Len(events') :
                   events'[i].type = "StepStarted")]_vars

\* the Pending steps with every dependency Completed that are not in the queue
ready_never_enqueued ==
    {s \in Steps : /\ state[s].tag = "Pending"
                   /\ dependencies_satisfied(s, with_state({"Completed"}))
                   /\ s \notin Range(explicit_queue)}

\* every step in the queue has been dispatched and has run to a terminal state
all_queued_dispatched ==
    \A i \in 1..Len(explicit_queue) : is_terminal(state[explicit_queue[i]])

\* C34: once every enqueued step has been dispatched the explicit queue is
\* empty again and selection falls back to the strategy, so a Pending step
\* with satisfied dependencies that was never enqueued is still executed
\* after routing or retry has used the queue: between two ticks a queue whose
\* entries have all run to a terminal state is empty, and a run without an
\* unhandled step failure does not end while such a step is left.
C34_QueueDrainsAndStrategyResumes ==
    /\ (pc = "loop" /\ all_queued_dispatched) => explicit_queue = <<>>
    /\ (finished /\ ~unhandled_failure /\ all_queued_dispatched)
           => ready_never_enqueued = {}

\* the events that report how an execution of a step ended
outcome_events == {"StepCompleted", "StepFailed", "StepContinued"}

\* event i is an outcome event of step s
outcome_at(i, s) == events[i].type \in outcome_events /\ events[i].step = s

\* C35: every outcome event of a step (StepCompleted, StepFailed or
\* StepContinued) is preceded by a StepStarted of that step with no other
\* outcome event of the same step in between, and a StepRerouted from a step
\* comes only after that step's outcome event.
C35_EventsLineariseTransitions ==
    \A i \in 1..Len(events) :
        /\ events[i].type \in outcome_events =>
               \E j \in 1..(i - 1) :
                   /\ events[j].type = "StepStarted"
                   /\ events[j].step = events[i].step
                   /\ \A k \in (j + 1)..(i - 1) : ~outcome_at(k, events[i].step)
        /\ events[i].type = "StepRerouted" =>
               \E j \in 1..(i - 1) :
                   /\ outcome_at(j, events[i].step)
                   /\ \A k \in (j + 1)..(i - 1) :
                          ~(events[k].type = "StepStarted"
                            /\ events[k].step = events[i].step)


\* the StepFailed that execute_step reports for a step refused at its retry limit
retry_limit_failure(i) ==
    /\ events[i].type = "StepFailed"
    /\ events[i].info = "Exceeded retry limit"

\* C35 (amended): every StepCompleted and StepContinued, and every StepFailed
\* other than the one that reports an exceeded retry limit, is preceded by a
\* StepStarted of the same step with no outcome event of that step in between;
\* a StepRerouted from a step comes only after an outcome event of that step
\* with no new start of it in between.
C35_ExecutedOutcomesLineariseTransitions ==
    \A i \in 1..Len(events) :
        /\ (events[i].type \in outcome_events /\ ~retry_limit_failure(i)) =>
               \E j \in 1..(i - 1) :
                   /\ events[j].type = "StepStarted"
                   /\ events[j].step = events[i].step
                   /\ \A k \in (j + 1)..(i - 1) : ~outcome_at(k, events[i].step)
        /\ events[i].type = "StepRerouted" =>
               \E j \in 1..(i - 1) :
                   /\ outcome_at(j, events[i].step)
                   /\ \A k \in (j + 1)..(i - 1) :
                          ~(events[k].type = "StepStarted" /\ events[k].step = events[i].step)

\* a run in which a step was rerouted after its outcome, and another outcome
\* was a retry-limit failure reported without a start
C35_Witness ==
    /\ \E i \in 1..Len(events) : events[i].type = "StepRerouted"
    /\ \E i \in 2..Len(events) :
           /\ retry_limit_failure(i)
           /\ outcome_at(i - 1, events[i].step)
    /\ \E i \in 1..Len(events) : events[i].type = "StepCompleted"


\* C36: every execution of a step emits StepStarted with its attempt number
\* when the step enters Running, and a StepRetrying is emitted with it
\* exactly when that attempt number is greater than 1.
C36_StartedAndRetryingAnnounced ==
    [][\A s \in Steps :
           executions'[s] # executions[s] =>
               /\ state'[s].tag = "Running"
               /\ emitted # <<>>
               /\ emitted[1] = Event("StepStarted", s, state'[s].attempt, None)
               /\ (\E i \in 1..Len(emitted) :
                       /\ emitted[i].type = "StepRetrying"
                       /\ emitted[i].step = s)
                  <=> state'[s].attempt > 1]_vars


\* positions of the events of one type
positions(type) == {i \in 1..Len(events) : events[i].type = type}

\* C37: every call of execute emits PipelineStarted before any other
\* lifecycle event and, on every way it can return, exactly one
\* PipelineCompleted as its last event, whose status is the pipeline's
\* status at return.
C37_RunBracketedByPipelineEvents ==
    /\ events # <<>> => positions("PipelineStarted") = {1}
    /\ pc = "done" =>
           /\ positions("PipelineCompleted") = {Len(events)}
           /\ events[Len(events)].info = status


\* C38: a handler registered with add_event_handler before execute is called
\* receives every lifecycle event of the run, beginning with PipelineStarted,
\* under every interleaving of the registration task with execute.
C38_RegisteredHandlerReceivesEveryEvent ==
    (pc = "done" /\ event_handlers # <<>>) => received = events


\* the step took a continuation route in the step being taken
continuation_routed(s) == verdicts'[s] = Append(verdicts[s], "Route")

place(order, s) == CHOOSE i \in DOMAIN order : order[i] = s

\* the pipeline with every on_success, on_failure and continuation target removed
depends_on_only(p) ==
    [ids   |-> p.ids,
     steps |-> [s \in DOMAIN p.steps |-> Plain(p.steps[s].dependencies)]]

\* C40: the execution order computed when the pipeline is built contains
\* every step exactly once and places each step after all the steps it
\* depends on; only depends_on edges enter the computation.
C40_ExecutionOrderIsTopological ==
    LET order == execution_order
    IN /\ Len(order) = Cardinality(Steps)
       /\ Range(order) = Steps
       /\ \A s \in Steps : \A dep \in deps_of(s) :
              place(order, dep) < place(order, s)
       /\ order = topological_sort(depends_on_only(pipeline))

\* a running pipeline in which a step sorts before one of its dependencies by
\* id, and steps name routing targets
C40_Witness ==
    /\ pc = "batch"
    /\ \E s \in Steps : \E dep \in deps_of(s) :
           place(pipeline.ids, s) < place(pipeline.ids, dep)
    /\ \E s \in Steps : pipeline.steps[s].on_success # None
    /\ Len(execution_order) = Cardinality(Steps)

====
